---- MODULE Spec2Model ----
(***************************************************************************)
(* Model of src/script.py: the SGS/BCB quotation collector.  One run of    *)
(* main() is a straight-line pipeline: resolve the configuration, compute  *)
(* the date window, fetch and normalise one series per currency, build     *)
(* the table, export it.  Strings are sequences of one-character strings   *)
(* so that split/strip/upper/replace/strptime/float are computed, and      *)
(* floats are exact rationals plus the IEEE specials nan, inf and -inf.    *)
(***************************************************************************)
EXTENDS Integers, Sequences, FiniteSets, TLC

(***************************************************************************)
(* Bounds of the model.                                                    *)
(***************************************************************************)
\* At most this many raw records are received over one run (all responses
\* together), in the runs that vary the currency list ...
MaxRecords == 3
\* ... and in the runs that vary the window and output options.
MaxRecordsOptions == 1

(***************************************************************************)
(* Characters and strings.                                                 *)
(***************************************************************************)
UpperLetters == <<"A","B","C","D","E","F","G","H","I","J","K","L","M",
                  "N","O","P","Q","R","S","T","U","V","W","X","Y","Z">>
LowerLetters == <<"a","b","c","d","e","f","g","h","i","j","k","l","m",
                  "n","o","p","q","r","s","t","u","v","w","x","y","z">>
Digits == <<"0","1","2","3","4","5","6","7","8","9">>

IndexIn(c, seq) == IF \E k \in 1..Len(seq) : seq[k] = c
                   THEN CHOOSE k \in 1..Len(seq) : seq[k] = c
                   ELSE 0

\* str.upper(), character by character
UpperChar(c) == IF IndexIn(c, LowerLetters) > 0
                THEN UpperLetters[IndexIn(c, LowerLetters)]
                ELSE c
Upper(s) == [k \in 1..Len(s) |-> UpperChar(s[k])]

\* str.strip(): leading and trailing whitespace removed
IsSpace(c) == c = " "
Strip(s) ==
  LET nonsp == {k \in 1..Len(s) : ~IsSpace(s[k])}
  IN IF nonsp = {} THEN <<>>
     ELSE LET lo == CHOOSE k \in nonsp : \A j \in nonsp : k <= j
              hi == CHOOSE k \in nonsp : \A j \in nonsp : k >= j
          IN SubSeq(s, lo, hi)

\* str.split(sep) for a one-character separator: always at least one piece
RECURSIVE Split(_, _)
Split(s, sep) ==
  IF \E k \in 1..Len(s) : s[k] = sep
  THEN LET p == CHOOSE k \in 1..Len(s) :
                  s[k] = sep /\ \A j \in 1..(k-1) : s[j] # sep
       IN <<SubSeq(s, 1, p-1)>> \o Split(SubSeq(s, p+1, Len(s)), sep)
  ELSE <<s>>

\* whether t occurs in s at position k
OccursAt(s, t, k) == /\ k + Len(t) - 1 <= Len(s)
                     /\ SubSeq(s, k, k + Len(t) - 1) = t

\* str.replace(old, new): every non-overlapping occurrence, left to right
RECURSIVE Replace(_, _, _)
Replace(s, old, new) ==
  IF s = <<>> THEN <<>>
  ELSE IF OccursAt(s, old, 1)
       THEN new \o Replace(SubSeq(s, Len(old) + 1, Len(s)), old, new)
       ELSE <<s[1]>> \o Replace(Tail(s), old, new)

IsDigits(s) == \A k \in 1..Len(s) : IndexIn(s[k], Digits) > 0

RECURSIVE ParseInt(_)
ParseInt(s) == IF s = <<>> THEN 0
               ELSE 10 * ParseInt(SubSeq(s, 1, Len(s) - 1))
                    + (IndexIn(s[Len(s)], Digits) - 1)

\* n written with at least w digits, zero padded (strftime %d, %m, %Y)
RECURSIVE FormatInt(_, _)
FormatInt(n, w) ==
  IF n < 10 /\ w <= 1 THEN <<Digits[n + 1]>>
  ELSE FormatInt(n \div 10, w - 1) \o <<Digits[(n % 10) + 1]>>

\* string comparison s < t (code-point order; used on upper-case codes)
RECURSIVE StrLess(_, _)
StrLess(s, t) ==
  IF t = <<>> THEN FALSE
  ELSE IF s = <<>> THEN TRUE
  ELSE IF s[1] = t[1] THEN StrLess(Tail(s), Tail(t))
  ELSE IndexIn(s[1], UpperLetters) < IndexIn(t[1], UpperLetters)

(***************************************************************************)
(* Calendar dates: a date is its proleptic Gregorian ordinal (day 1 is     *)
(* 0001-01-01), as datetime.date counts them; date - timedelta(days=n) is  *)
(* the ordinal minus n.                                                    *)
(***************************************************************************)
IsLeap(y) == (y % 4 = 0) /\ ((y % 100 # 0) \/ (y % 400 = 0))

DaysInMonth(y, m) ==
  IF m = 2 THEN (IF IsLeap(y) THEN 29 ELSE 28)
  ELSE IF m \in {4, 6, 9, 11} THEN 30 ELSE 31

\* date(y, m, d).toordinal()
Ordinal(y, m, d) ==
  LET yy  == IF m <= 2 THEN y - 1 ELSE y
      era == yy \div 400
      yoe == yy - era * 400
      mp  == IF m > 2 THEN m - 3 ELSE m + 9
      doy == (153 * mp + 2) \div 5 + d - 1
      doe == yoe * 365 + yoe \div 4 - yoe \div 100 + doy
  IN era * 146097 + doe - 305

\* date.fromordinal(n) as <<year, month, day>>
Civil(n) ==
  LET z   == n + 305
      era == z \div 146097
      doe == z - era * 146097
      yoe == (doe - doe \div 1460 + doe \div 36524 - doe \div 146096) \div 365
      doy == doe - (365 * yoe + yoe \div 4 - yoe \div 100)
      mp  == (5 * doy + 2) \div 153
      d   == doy - (153 * mp + 2) \div 5 + 1
      m   == IF mp < 10 THEN mp + 3 ELSE mp - 9
      y   == yoe + era * 400 + (IF m <= 2 THEN 1 ELSE 0)
  IN <<y, m, d>>

\* ddmmyyyy(d): d.strftime("%d/%m/%Y")
ddmmyyyy(d) ==
  LET c == Civil(d)
  IN FormatInt(c[3], 2) \o <<"/">> \o FormatInt(c[2], 2) \o <<"/">>
     \o FormatInt(c[1], 4)

\* The missing timestamp pd.to_datetime(..., errors="coerce") yields for a
\* string that does not match the format.  Ordinals are positive.
NaT == 0

\* pd.to_datetime(s, format="%d/%m/%Y", errors="coerce") of one string:
\* day and month of one or two digits, a four-digit year, a real calendar
\* day; anything else is coerced to NaT.
ToDatetime(s) ==
  LET parts == Split(s, "/")
  IN IF /\ Len(parts) = 3
        /\ \A k \in 1..3 : IsDigits(parts[k])
        /\ Len(parts[1]) \in {1, 2}
        /\ Len(parts[2]) \in {1, 2}
        /\ Len(parts[3]) = 4
     THEN LET d == ParseInt(parts[1])
              m == ParseInt(parts[2])
              y == ParseInt(parts[3])
          IN IF /\ y >= 1
                /\ m \in 1..12
                /\ d >= 1
                /\ d <= DaysInMonth(y, m)
             THEN Ordinal(y, m, d)
             ELSE NaT
     ELSE NaT

(***************************************************************************)
(* Floats.  A finite float is an exact rational num/den in lowest terms    *)
(* with den > 0; nan, inf and -inf are the IEEE specials.  NaN is also     *)
(* what a missing cell of a float column holds.                            *)
(***************************************************************************)
RECURSIVE Gcd(_, _)
Gcd(a, b) == IF b = 0 THEN a ELSE Gcd(b, a % b)

Abs(a) == IF a < 0 THEN -a ELSE a

Rat(n, d) ==
  LET g == Gcd(Abs(n), Abs(d))
      sg == IF d < 0 THEN -1 ELSE 1
  IN [k |-> "num", num |-> sg * (n \div g), den |-> sg * (d \div g)]

NaN    == [k |-> "nan",  num |-> 0, den |-> 1]
PosInf == [k |-> "inf",  num |-> 0, den |-> 1]
NegInf == [k |-> "-inf", num |-> 0, den |-> 1]
\* the result of a float() call that raises ValueError
NotAFloat == [k |-> "ValueError", num |-> 0, den |-> 1]

RECURSIVE Pow10(_)
Pow10(n) == IF n = 0 THEN 1 ELSE 10 * Pow10(n - 1)

\* float(s) for the decimal literals: an optional sign, digits with at most
\* one period, at least one digit.  Any other string raises ValueError.
ParseFloat(s) ==
  LET neg  == s # <<>> /\ s[1] = "-"
      body == IF s # <<>> /\ s[1] \in {"-", "+"} THEN Tail(s) ELSE s
      ps   == Split(body, ".")
  IN IF /\ Len(ps) \in {1, 2}
        /\ \A k \in 1..Len(ps) : IsDigits(ps[k])
        /\ \E k \in 1..Len(ps) : ps[k] # <<>>
     THEN LET ip == ps[1]
              fp == IF Len(ps) = 2 THEN ps[2] ELSE <<>>
              n  == ParseInt(ip \o fp)
          IN Rat(IF neg THEN -n ELSE n, Pow10(Len(fp)))
     ELSE NotAFloat

\* a / b on floats
FDiv(a, b) ==
  IF a.k = "nan" \/ b.k = "nan" THEN NaN
  ELSE IF a.k = "num" /\ b.k = "num"
       THEN IF b.num # 0 THEN Rat(a.num * b.den, a.den * b.num)
            ELSE IF a.num > 0 THEN PosInf
            ELSE IF a.num < 0 THEN NegInf
            ELSE NaN
  ELSE IF a.k = "num" THEN Rat(0, 1)
  ELSE IF b.k # "num" THEN NaN
  ELSE IF (a.k = "inf") = (b.num >= 0) THEN PosInf ELSE NegInf

\* a - n and a * n for a float a and a positive integer n
FSubInt(a, n) == IF a.k = "num" THEN Rat(a.num - n * a.den, a.den) ELSE a
FMulInt(a, n) == IF a.k = "num" THEN Rat(a.num * n, a.den) ELSE a

(***************************************************************************)
(* The program's constants.                                                *)
(***************************************************************************)
USD == <<"U","S","D">>
EUR == <<"E","U","R">>
GBP == <<"G","B","P">>
JPY == <<"J","P","Y">>
ARS == <<"A","R","S">>
CHF == <<"C","H","F">>

\* SGS_SERIES: currency code -> series identifier
SGS_SERIES == (USD :> 10813) @@ (EUR :> 21619) @@ (GBP :> 21623)
              @@ (JPY :> 21621) @@ (ARS :> 3549) @@ (CHF :> 21625)

CsvExt  == <<".","c","s","v">>
XlsxExt == <<".","x","l","s","x">>

(***************************************************************************)
(* Inputs: the command lines, the system dates and the responses of the    *)
(* API that the model explores.                                            *)
(***************************************************************************)
\* values of --moedas
MoedasUsd      == USD
MoedasUsdEur   == USD \o <<",">> \o EUR
MoedasLower    == <<" ","u","s","d"," ",",",","," ",",","e","u","r">>
MoedasTwice    == USD \o <<",">> \o EUR \o <<",">> \o USD
MoedasChf      == <<"c","h","f">>
MoedasBadLast  == USD \o <<",","B","R","L">>
MoedasBad      == <<"x","y","z">>
MoedasEmpty    == <<>>
MoedasArgs == {MoedasUsd, MoedasLower, MoedasTwice, MoedasChf,
               MoedasBadLast, MoedasBad, MoedasEmpty}

\* values of --out
OutDefault == <<"d","a","t","a","/","c","o","t","a","c","o","e","s",
                ".","c","s","v">>
OutNoDir   == <<"o","u","t",".","c","s","v">>
OutXlsx    == <<"d","a","t","a","/","o","u","t",".","x","l","s","x">>
OutTxt     == <<"d","a","t","a","/","o","u","t",".","t","x","t">>
OutCsvDir  == <<"d",".","c","s","v","/","o",".","c","s","v">>
OutPaths == {OutDefault, OutNoDir, OutXlsx, OutTxt, OutCsvDir}

\* the parsed command line (parse_args); has_days is "--days was given"
DefaultArgs == [moedas |-> MoedasUsd, has_days |-> FALSE, days |-> 0,
                years |-> 2, out |-> OutDefault, excel |-> FALSE]
WindowArgs == {[has_days |-> FALSE, days |-> 0,  years |-> 2],
               [has_days |-> FALSE, days |-> 0,  years |-> 1],
               [has_days |-> TRUE,  days |-> 0,  years |-> 2],
               [has_days |-> TRUE,  days |-> 30, years |-> 2],
               [has_days |-> TRUE,  days |-> 7,  years |-> 1]}

\* the system date of the run
BaseToday == Ordinal(2024, 3, 1)
Todays == {BaseToday, Ordinal(2025, 1, 15)}

\* The runs explored, as [args, today]: every currency list with the default
\* options; every window option on two dates with two currencies; every
\* output option.
ListRuns ==
  {[args |-> [DefaultArgs EXCEPT !.moedas = m], today |-> BaseToday]
   : m \in MoedasArgs}
WindowRuns ==
  {[args |-> [DefaultArgs EXCEPT !.moedas = MoedasUsdEur,
                                 !.has_days = w.has_days,
                                 !.days = w.days, !.years = w.years],
    today |-> t] : w \in WindowArgs, t \in Todays}
OutputRuns ==
  {[args |-> [DefaultArgs EXCEPT !.out = o, !.excel = x], today |-> BaseToday]
   : o \in OutPaths, x \in BOOLEAN}
Runs == ListRuns \cup WindowRuns \cup OutputRuns

\* how many raw records the run [a, t] may receive
Budget(a, t) ==
  IF [args |-> a, today |-> t] \in ListRuns THEN MaxRecords
  ELSE MaxRecordsOptions

\* strings of the "data" and "valor" fields
D0201   == <<"0","2","/","0","1","/","2","0","2","4">>
D0101   == <<"0","1","/","0","1","/","2","0","2","4">>
D3102   == <<"3","1","/","0","2","/","2","0","2","4">>
V55     == <<"5",",","5">>
V50     == <<"5",",","0">>
V0      == <<"0">>
VThou   == <<"1",".","2","3","4",",","5">>

\* One element of a response list.  kind "object" is a JSON object whose
\* "data" and "valor" members are present or not; kind "null" is a JSON
\* value that is not an object.
Obj(hd, d, hv, v) == [kind |-> "object", has_data |-> hd, data |-> d,
                      has_valor |-> hv, valor |-> v]
Items == {Obj(TRUE, D0201, TRUE, V55),
          Obj(TRUE, D0101, TRUE, V50),
          Obj(TRUE, D0101, TRUE, V0),
          Obj(TRUE, D3102, TRUE, V50),
          Obj(TRUE, D0201, TRUE, VThou),
          Obj(FALSE, <<>>, TRUE, V50),
          Obj(TRUE, D0201, FALSE, <<>>),
          [kind |-> "null", has_data |-> FALSE, data |-> <<>>,
           has_valor |-> FALSE, valor |-> <<>>]}

\* the lists of at most n elements a response can be
ItemLists(n) == UNION {[1..k -> Items] : k \in 0..n}

\* the ways a request ends without a list: requests.get raises (connection,
\* timeout), raise_for_status raises (non-2xx), the body is not JSON, the
\* JSON is not a list
FetchFailures == {"transport", "http_status", "not_json", "not_list"}

(***************************************************************************)
(* State.                                                                  *)
(***************************************************************************)
VARIABLES
  args,      \* the parsed command line
  today,     \* the system date
  dirs,      \* the directories that exist (paths; the working directory is <<>>)
  files,     \* the files written: [path, format, table]
  pc,        \* where main() is
  moedas,    \* the currency list
  window,    \* [start, end]
  i,         \* index into moedas of the currency being fetched
  requests,  \* the HTTP requests issued, in order
  responses, \* how each request ended: "list" or a member of FetchFailures
  received,  \* the raw records received, in order: [currency, item]
  rows,      \* the normalised rows
  df,        \* the table
  status,    \* the exit status; -1 while the run has not ended
  raised,    \* the exception that ended the run, "" if none
  stdout     \* what the run printed: "", "invalid", "nodata", "ok"

vars == <<args, today, dirs, files, pc, moedas, window, i, requests, responses,
          received,
          rows, df, status, raised, stdout>>

Init ==
  /\ \E run \in Runs : args = run.args /\ today = run.today
  /\ dirs = {<<>>}
  /\ files = {}
  /\ pc = "config"
  /\ moedas = <<>>
  /\ window = [start |-> NaT, end |-> NaT]
  /\ i = 1
  /\ requests = <<>>
  /\ responses = <<>>
  /\ received = <<>>
  /\ rows = <<>>
  /\ df = <<>>
  /\ status = -1
  /\ raised = ""
  /\ stdout = ""

\* sys.exit(code) after printing msg
Exit(code, msg) ==
  /\ pc' = "done"
  /\ status' = code
  /\ stdout' = msg
  /\ raised' = ""

\* an exception nobody catches: the interpreter prints the traceback and
\* exits with status 1
Uncaught(exc) ==
  /\ pc' = "done"
  /\ status' = 1
  /\ raised' = exc
  /\ stdout' = stdout

(***************************************************************************)
(* Configuration (lines 55-59).                                            *)
(***************************************************************************)
\* ParseMoedas without the upper-casing
ParseMoedasNoUpper(arg) ==
  LET pieces == Split(arg, ",")
      kept   == SelectSeq(pieces, LAMBDA m : Strip(m) # <<>>)
  IN [k \in 1..Len(kept) |-> Strip(kept[k])]

\* [m.strip().upper() for m in args.moedas.split(",") if m.strip()]
ParseMoedas(arg) ==
  LET pieces == Split(arg, ",")
      kept   == SelectSeq(pieces, LAMBDA m : Strip(m) # <<>>)
  IN [k \in 1..Len(kept) |-> Upper(Strip(kept[k]))]

\* [m for m in moedas if m not in SGS_SERIES]
Invalidas(ms) == SelectSeq(ms, LAMBDA m : m \notin DOMAIN SGS_SERIES)

ResolveConfig ==
  /\ pc = "config"
  /\ moedas' = ParseMoedas(args.moedas)
  /\ IF Invalidas(moedas') # <<>>
     THEN Exit(1, "invalid")
     ELSE /\ pc' = "window"
          /\ UNCHANGED <<status, raised, stdout>>
  /\ UNCHANGED <<args, today, dirs, files, window, i, requests, responses,
                 received, rows, df>>

(***************************************************************************)
(* Date window (lines 61-65).                                              *)
(***************************************************************************)
\* WindowStart testing the day count for truth ("if args.days:"), so that a
\* day count of 0 falls through to the years
WindowStartTruthy(a, end) ==
  IF a.has_days /\ a.days # 0 THEN end - a.days ELSE end - 365 * a.years

WindowStart(a, end) ==
  IF a.has_days THEN end - a.days ELSE end - 365 * a.years

ComputeWindow ==
  /\ pc = "window"
  /\ window' = [start |-> WindowStart(args, today), end |-> today]
  /\ pc' = "fetch"
  /\ UNCHANGED <<args, today, dirs, files, moedas, i, requests, responses,
                 received, rows, df, status, raised, stdout>>

(***************************************************************************)
(* Fetch and normalise one currency (lines 68-85, fetch_sgs 26-38).        *)
(***************************************************************************)
\* the GET fetch_sgs issues: the series in the URL and the query parameters
Request(codigo, start, end) ==
  [codigo |-> codigo, formato |-> "json",
   dataInicial |-> ddmmyyyy(start), dataFinal |-> ddmmyyyy(end)]

\* What leaves fetch_sgs when the request does not yield a list: a
\* RequestException is wrapped in RuntimeError; the ValueError raised for a
\* JSON value that is not a list is not a RequestException and passes through.
\* The error r.json() raises for a body that is not JSON is a
\* RequestException in some releases of requests and a plain ValueError in
\* others, so either can leave.
FetchExceptions(failure) ==
  IF failure = "not_list" THEN {"ValueError: JSON is not a list"}
  ELSE IF failure = "not_json"
       THEN {"RuntimeError: connection/HTTP", "ValueError: JSONDecodeError"}
  ELSE {"RuntimeError: connection/HTTP"}

\* The body of "for item in data" for one item that is a mapping: the rows
\* it appends (none or one).
NormalizeItem(item, moeda) ==
  IF ~item.has_data \/ ~item.has_valor THEN <<>>
  ELSE LET val_f == ParseFloat(Replace(item.valor, <<",">>, <<".">>))
       IN IF val_f = NotAFloat THEN <<>>
          ELSE <<[date |-> item.data, currency |-> moeda, value_brl |-> val_f]>>

\* "for item in data": item.get on an item that is no mapping raises
\* AttributeError, which ends the loop and the run.
RECURSIVE NormalizeItems(_, _)
NormalizeItems(data, moeda) ==
  IF data = <<>> THEN [rows |-> <<>>, err |-> FALSE]
  ELSE IF Head(data).kind # "object" THEN [rows |-> <<>>, err |-> TRUE]
  ELSE LET rest == NormalizeItems(Tail(data), moeda)
       IN [rows |-> NormalizeItem(Head(data), moeda) \o rest.rows,
           err  |-> rest.err]

Tagged(data, moeda) ==
  [k \in 1..Len(data) |-> [currency |-> moeda, item |-> data[k]]]

\* FetchRaises with the failure swallowed: the loop goes on to the next currency
FetchRaisesSkip(failure) ==
  /\ responses' = Append(responses, failure)
  /\ i' = i + 1
  /\ UNCHANGED <<pc, status, raised, stdout, received, rows>>

\* fetch_sgs raises: nothing catches it in main
FetchRaises(failure) ==
  /\ responses' = Append(responses, failure)
  /\ \E exc \in FetchExceptions(failure) : Uncaught(exc)
  /\ UNCHANGED <<i, received, rows>>

\* fetch_sgs returns the list, and the item loop runs over it
FetchReturns(data) ==
  LET moeda == moedas[i]
      out   == NormalizeItems(data, moeda)
  IN /\ responses' = Append(responses, "list")
     /\ received' = received \o Tagged(data, moeda)
     /\ rows' = rows \o out.rows
     /\ IF out.err
        THEN /\ Uncaught("AttributeError: get")
             /\ UNCHANGED i
        ELSE /\ i' = i + 1
             /\ UNCHANGED <<pc, status, raised, stdout>>

Fetch ==
  /\ pc = "fetch"
  /\ i <= Len(moedas)
  /\ requests' = Append(requests,
                        Request(SGS_SERIES[moedas[i]], window.start, window.end))
  /\ \/ \E failure \in FetchFailures : FetchRaises(failure)
     \/ \E data \in ItemLists(Budget(args, today) - Len(received)) : FetchReturns(data)
  /\ UNCHANGED <<args, today, dirs, files, moedas, window, df>>

(***************************************************************************)
(* Guard and transform (lines 87-98).                                      *)
(***************************************************************************)
NoData ==
  /\ pc = "fetch"
  /\ i > Len(moedas)
  /\ rows = <<>>
  /\ Exit(2, "nodata")
  /\ UNCHANGED <<args, today, dirs, files, moedas, window, i, requests,
                 responses, received, rows, df>>

\* ParseDates without the dropna: rows with a NaT date stay in the table
ParseDatesKeep(rs) ==
  [k \in 1..Len(rs) |->
     [date |-> ToDatetime(rs[k].date), currency |-> rs[k].currency,
      value_brl |-> rs[k].value_brl]]

\* df["date"] = pd.to_datetime(...); df = df.dropna(subset=["date"])
ParseDates(rs) ==
  LET parsed == [k \in 1..Len(rs) |->
                   [date |-> ToDatetime(rs[k].date),
                    currency |-> rs[k].currency,
                    value_brl |-> rs[k].value_brl]]
  IN SelectSeq(parsed, LAMBDA r : r.date # NaT)

\* the order of sort_values(["currency", "date"])
RowLess(a, b) ==
  \/ StrLess(a.currency, b.currency)
  \/ a.currency = b.currency /\ a.date < b.date

\* r inserted after every row that is not greater: the sort is stable
Insert(sorted, r) ==
  LET n == Cardinality({k \in 1..Len(sorted) : ~RowLess(r, sorted[k])})
  IN SubSeq(sorted, 1, n) \o <<r>> \o SubSeq(sorted, n + 1, Len(sorted))

RECURSIVE SortValues(_)
SortValues(rs) ==
  IF rs = <<>> THEN <<>>
  ELSE Insert(SortValues(SubSeq(rs, 1, Len(rs) - 1)), rs[Len(rs)])

\* GroupShift without the groupby: df["value_brl"].shift(1)
PlainShift(t, k) == IF k = 1 THEN NaN ELSE t[k-1].value_brl

\* df.groupby("currency")["value_brl"].shift(1), for the row at position k
GroupShift(t, k) ==
  LET before == {j \in 1..(k-1) : t[j].currency = t[k].currency}
  IN IF before = {} THEN NaN
     ELSE t[CHOOSE j \in before : \A h \in before : h <= j].value_brl

\* (value_brl / prev_value - 1) * 100
PctChange(value, prev) == FMulInt(FSubInt(FDiv(value, prev), 1), 100)

BuildTable(rs) ==
  LET t == SortValues(ParseDates(rs))
  IN [k \in 1..Len(t) |->
        LET prev == GroupShift(t, k)
        IN [date |-> t[k].date, currency |-> t[k].currency,
            value_brl |-> t[k].value_brl, prev_value |-> prev,
            pct_change_day |-> PctChange(t[k].value_brl, prev)]]

Transform ==
  /\ pc = "fetch"
  /\ i > Len(moedas)
  /\ rows # <<>>
  /\ df' = BuildTable(rows)
  /\ pc' = "export"
  /\ UNCHANGED <<args, today, dirs, files, moedas, window, i, requests,
                 responses, received, rows, status, raised, stdout>>

(***************************************************************************)
(* Export (lines 100-107).                                                 *)
(***************************************************************************)
LastIndexOf(p, c) ==
  LET at == {k \in 1..Len(p) : p[k] = c}
  IN IF at = {} THEN 0 ELSE CHOOSE k \in at : \A j \in at : j <= k

RECURSIVE RStripSlash(_)
RStripSlash(p) ==
  IF p # <<>> /\ p[Len(p)] = "/" THEN RStripSlash(SubSeq(p, 1, Len(p) - 1))
  ELSE p

\* os.path.dirname
Dirname(p) ==
  LET head == SubSeq(p, 1, LastIndexOf(p, "/"))
  IN IF RStripSlash(head) = <<>> THEN head ELSE RStripSlash(head)

\* the extension os.path.splitext finds, without its period
Extension(p) ==
  LET base == SubSeq(p, LastIndexOf(p, "/") + 1, Len(p))
      dot  == LastIndexOf(base, ".")
  IN IF dot > 1 /\ \E k \in 1..(dot-1) : base[k] # "."
     THEN SubSeq(base, dot + 1, Len(base))
     ELSE <<>>

\* the directories os.makedirs(d, exist_ok=True) leaves in existence
MakeDirs(d) ==
  {SubSeq(d, 1, k) : k \in {j \in 1..Len(d) : d[j] # "/" /\
                                 (j = Len(d) \/ d[j+1] = "/")}}

\* a file written at path, replacing what was there
WriteFile(fs, path, format, table) ==
  {f \in fs : f.path # path}
  \cup {[path |-> path, format |-> format, table |-> table]}

\* the file types pandas has a spreadsheet writer for
ExcelExts == {<<"x","l","s","x">>, <<"x","l","s","m">>, <<"o","d","s">>}

\* args.out.replace(".csv", ".xlsx")
XlsxPath(out) == Replace(out, CsvExt, XlsxExt)

\* os.makedirs(os.path.dirname(args.out), exist_ok=True); df.to_csv(args.out)
ExportCsv ==
  /\ pc = "export"
  /\ IF Dirname(args.out) = <<>>
     THEN /\ Uncaught("FileNotFoundError: makedirs")
          /\ UNCHANGED <<dirs, files>>
     ELSE /\ dirs' = dirs \cup MakeDirs(Dirname(args.out))
          /\ files' = WriteFile(files, args.out, "csv", df)
          /\ pc' = "excel"
          /\ UNCHANGED <<status, raised, stdout>>
  /\ UNCHANGED <<args, today, moedas, window, i, requests, responses,
                 received, rows, df>>

\* if args.excel: df.to_excel(xlsx_path); then the final print
ExportExcel ==
  /\ pc = "excel"
  /\ IF ~args.excel
     THEN /\ Exit(0, "ok")
          /\ UNCHANGED files
     ELSE IF Extension(XlsxPath(args.out)) \notin ExcelExts
     THEN /\ Uncaught("ValueError: no engine for filetype")
          /\ UNCHANGED files
     ELSE IF Dirname(XlsxPath(args.out)) \notin dirs
     THEN /\ Uncaught("OSError: non-existent directory")
          /\ UNCHANGED files
     ELSE /\ files' = WriteFile(files, XlsxPath(args.out), "xlsx", df)
          /\ Exit(0, "ok")
  /\ UNCHANGED <<args, today, dirs, moedas, window, i, requests, responses,
                 received, rows, df>>

Next ==
  \/ ResolveConfig
  \/ ComputeWindow
  \/ Fetch
  \/ NoData
  \/ Transform
  \/ ExportCsv
  \/ ExportExcel

Spec == Init /\ [][Next]_vars

(***************************************************************************)
(* Properties.                                                             *)
(***************************************************************************)
\* The codes of a --moedas value: its non-blank pieces, trimmed, upper-cased.
CodesOf(arg) ==
  {Upper(Strip(Split(arg, ",")[k])) :
     k \in {j \in 1..Len(Split(arg, ",")) : Strip(Split(arg, ",")[j]) # <<>>}}
SupportedCodes == {USD, EUR, GBP, JPY, ARS, CHF}

\* Every planned request was issued and answered with a list.
AllFetched == /\ Len(responses) = Len(moedas)
              /\ \A k \in 1..Len(responses) : responses[k] = "list"
\* A request ended without a list.
FetchFailed == \E k \in 1..Len(responses) : responses[k] # "list"
\* The run got as far as the export stage.
ReachedExport ==
  \/ pc \in {"export", "excel"}
  \/ pc = "done" /\ stdout = "ok"
  \/ pc = "done" /\ raised \in {"FileNotFoundError: makedirs",
                                "ValueError: no engine for filetype",
                                "OSError: non-existent directory"}
\* A raw record the specification says is dropped.
Malformed(item) ==
  \/ item.kind # "object"
  \/ ~item.has_data
  \/ ~item.has_valor
  \/ ParseFloat(Replace(item.valor, <<",">>, <<".">>)) = NotAFloat
BadDate(item) == ToDatetime(item.data) = NaT
Survives(item) == ~Malformed(item) /\ ~BadDate(item)
CountIn(seq, Test(_)) == Cardinality({k \in 1..Len(seq) : Test(seq[k])})

\* C1: when every request was answered with a list and no row survives
\* normalisation and date parsing, a run that ends without an exception ends
\* with exit status 2, having reported "no data" and written no file.
C1_EmptyTableExitsTwo ==
  (/\ pc = "done"
   /\ raised = ""
   /\ AllFetched
   /\ CountIn(received, LAMBDA r : Survives(r.item)) = 0)
  => (status = 2 /\ stdout = "nodata" /\ files = {})

\* C2: once the configuration is resolved, a currency list whose codes are all
\* supported is accepted, and any other list has ended the run with exit
\* status 1, no request issued and no file written.
C2_ConfigValidation ==
  pc # "config" =>
    IF CodesOf(args.moedas) \subseteq SupportedCodes
    THEN /\ stdout # "invalid"
         /\ pc \in {"window", "fetch"} => status = -1
    ELSE /\ pc = "done" /\ status = 1 /\ stdout = "invalid"
         /\ requests = <<>> /\ files = {}
\* a list with a supported code followed by an unsupported one was rejected
C2_Witness ==
  /\ args.moedas = MoedasBadLast
  /\ pc = "done" /\ status = 1 /\ requests = <<>>

\* C3: requests are issued one at a time in list order, each only after the
\* previous one was answered with a list and its records processed; a request
\* that ends without a list is the last one of the run, and the run has ended
\* with no file written.
C3_SequentialFailFast ==
  /\ Len(requests) = Len(responses)
  /\ Len(requests) <= Len(moedas)
  /\ \A k \in 1..Len(requests) : requests[k].codigo = SGS_SERIES[moedas[k]]
  /\ pc = "fetch" => Len(requests) = i - 1
  /\ \A k \in 1..Len(responses) :
       responses[k] # "list" =>
         /\ k = Len(requests)
         /\ pc = "done" /\ status # 0 /\ stdout = ""
         /\ files = {}
\* the second currency's request failed after the first one yielded rows
C3_Witness ==
  /\ Len(moedas) = 3
  /\ Len(responses) = 2
  /\ responses[1] = "list" /\ responses[2] \in FetchFailures
  /\ rows # <<>>
  /\ pc = "done"

\* C4: the table is ordered by (currency, date); each row's prev_value is the
\* value_brl of the row just before it when that row has the same currency,
\* and is absent otherwise (the first row of a currency).
C4_PrevWithinCurrency ==
  \A k \in 1..Len(df) :
    /\ k > 1 =>
         \/ StrLess(df[k-1].currency, df[k].currency)
         \/ df[k-1].currency = df[k].currency /\ df[k-1].date <= df[k].date
    /\ df[k].prev_value =
         IF k > 1 /\ df[k-1].currency = df[k].currency
         THEN df[k-1].value_brl
         ELSE NaN
\* rows arrived as USD, EUR, USD; in the table the EUR row comes first and
\* the first USD row has no prev_value although a row precedes it
C4_Witness ==
  /\ Len(rows) = 3
  /\ rows[1].currency = USD /\ rows[2].currency = EUR /\ rows[3].currency = USD
  /\ Len(df) = 3
  /\ df[1].currency = EUR /\ df[2].currency = USD /\ df[3].currency = USD
  /\ df[2].prev_value = NaN
  /\ df[3].prev_value = df[2].value_brl
  /\ df[3].prev_value # df[1].value_brl
  /\ status = 0

\* C5: pct_change_day is (value_brl / prev_value - 1) * 100 when prev_value is
\* present and not zero, and absent when prev_value is absent or zero.
C5_PctChange ==
  \A k \in 1..Len(df) :
    LET v == df[k].value_brl
        p == df[k].prev_value
    IN df[k].pct_change_day =
         IF p.k = "num" /\ p.num # 0
         THEN Rat((v.num * p.den - p.num * v.den) * 100, p.num * v.den)
         ELSE NaN

\* C6: a run that ended did so with status 0, 1 or 2; 0 only after success
\* with the CSV written, 1 only for an unsupported currency code, 2 only when
\* no row survived; a failed request ends the run with none of these.
C6_ExitClasses ==
  pc = "done" =>
    /\ status \in {0, 1, 2}
    /\ status = 0 => stdout = "ok" /\ \E f \in files : f.path = args.out
    /\ status = 1 => ~(CodesOf(args.moedas) \subseteq SupportedCodes)
    /\ status = 2 => AllFetched /\ rows = <<>>
    /\ FetchFailed => status \notin {0, 1, 2}

\* the CSV path with its extension replaced by the spreadsheet extension
WithXlsxExtension(path) ==
  SubSeq(path, 1, Len(path) - Len(Extension(path)) - 1) \o XlsxExt

\* C7: a run that reached the export stage and ended has created the parent
\* directories and written the CSV at the output path; with the spreadsheet
\* flag the same table is also in a spreadsheet at the CSV path with its
\* extension replaced, a different path, the CSV still in place; without the
\* flag there is no spreadsheet.
C7_Export ==
  (pc = "done" /\ ReachedExport) =>
    /\ Dirname(args.out) \in dirs
    /\ [path |-> args.out, format |-> "csv", table |-> df] \in files
    /\ args.excel =>
         /\ WithXlsxExtension(args.out) # args.out
         /\ [path |-> WithXlsxExtension(args.out), format |-> "xlsx",
             table |-> df] \in files
    /\ ~args.excel => \A f \in files : f.format # "xlsx"

\* C8: every request of the run carries the same window: it ends today and
\* starts day-count days earlier when a day count was given (0 included),
\* whatever the year count, and 365 * year-count days earlier otherwise.
C8_Window ==
  \A k \in 1..Len(requests) :
    /\ ToDatetime(requests[k].dataFinal) = today
    /\ ToDatetime(requests[k].dataInicial) =
         IF args.has_days THEN today - args.days
         ELSE today - 365 * args.years
\* two requests went out in a run given a day count of 0
C8_Witness ==
  /\ Len(requests) = 2
  /\ args.has_days /\ args.days = 0 /\ args.years = 2
  /\ requests[1].dataInicial = requests[2].dataInicial
  /\ requests[1].dataInicial = requests[1].dataFinal

\* C9: malformed records in a list never make the run fail, and the rows are
\* exactly the well-formed records received.
C9_MalformedDropped ==
  /\ raised # "AttributeError: get"
  /\ Len(rows) = CountIn(received, LAMBDA r : ~Malformed(r.item))

\* C10: in a successful run the table has one row for each raw record
\* received that was not dropped, no more and no fewer, and a record
\* without a value is not among them.
C10_RowCount ==
  status = 0 =>
    /\ Len(df) = Len(received)
                 - CountIn(received, LAMBDA r : Malformed(r.item))
                 - CountIn(received,
                           LAMBDA r : ~Malformed(r.item) /\ BadDate(r.item))
    /\ \A f \in files : f.table = df
    /\ \A r \in {received[k] : k \in 1..Len(received)} :
         Survives(r.item) =>
           CountIn(df, LAMBDA d :
                     /\ d.currency = r.currency
                     /\ d.date = ToDatetime(r.item.data)
                     /\ d.value_brl =
                          ParseFloat(Replace(r.item.valor, <<",">>, <<".">>)))
           = CountIn(received, LAMBDA q : q = r)
\* three records arrived, two were dropped (one without a value, one with an
\* impossible date), one row was written
C10_Witness ==
  /\ status = 0
  /\ Len(received) = 3
  /\ \E k \in 1..3 : ~received[k].item.has_valor
  /\ \E k \in 1..3 : ~Malformed(received[k].item) /\ BadDate(received[k].item)
  /\ Len(df) = 1
====
